---- MODULE Spec2Model ----
\* A model of expu::darray (include/expu/containers/darray.hpp): the block
\* triad first/last/end, the allocator, and the mutation algorithms, with
\* element construction failures injected at chosen points.
EXTENDS Integers, Sequences, FiniteSets, TLC

\* ---------------------------------------------------------------- bounds
MaxSize     == 3    \* allocator_traits::max_size: the largest block
PairMaxSize == 2    \* the same, where two containers are explored together
GrowMaxSize == 4    \* the same, where growth by push_back is explored
MaxRange    == 2    \* longest incoming range of assign/insert
MaxFail     == 5    \* failure points that can be injected in one call
SizeBits    == 4    \* width of size_type in the growth policy
MaxBlocks   == 3    \* addresses the heap can hand out at one time

Values   == {1, 2}              \* element values
Conts    == {1, 2}              \* container objects
AllocIds == {1, 2}              \* allocator instances
BlockIds == 1 .. MaxBlocks

NULL      == 0                  \* nullptr: the block id of no block
Raw       == 0                  \* a slot holding no constructed element
MovedFrom == 9                  \* a constructed element that was moved from

Ranges == UNION {[1 .. n -> Values] : n \in 0 .. MaxRange}

VARIABLES
    heap,       \* BlockIds -> [live, alloc, slots]: the allocator's memory
    data,       \* Conts -> [first, last, end]: each container's _darray_data
    alloc,      \* Conts -> AllocIds: each container's allocator instance
    alive,      \* Conts -> BOOLEAN: constructed and not yet destroyed
    traits,     \* compile-time traits of Type and Alloc
    detail,     \* whether lastOp keeps the call's arguments and diagnostics
    copyOf,     \* Conts -> the container it was copy-constructed from and has
                \* only been mutated since, or 0
    pushed,     \* the values pushed back onto container 1, while every call
                \* since its construction was a push_back; Untracked otherwise
    lastOp      \* the last call: its arguments and outcome

vars == <<heap, data, alloc, alive, traits, detail, copyOf, pushed, lastOp>>

\* ------------------------------------------------------------- pointers
Ptr(b, o) == [b |-> b, o |-> o]
NullPtr   == Ptr(NULL, 0)
NullData  == [first |-> NullPtr, last |-> NullPtr, end |-> NullPtr]
NoBlock   == [live |-> FALSE, alloc |-> 0, slots |-> <<>>]

\* ------------------------------------------------- the running call's state
\* heap/data/alloc are the program state the call works on; fails is the set
\* of fallible steps (counted from 1) that throw, n the steps taken so far,
\* g the value a read of an uninitialised slot yields, r a returned pointer,
\* q a pointer returned through a reference parameter, v a returned element,
\* err the kind of the exception in flight: "element" (thrown by value_type),
\* "length" (std::bad_array_new_length), "alloc" (std::bad_alloc) or
\* "out_of_range" (std::out_of_range).
Machine(fails, g) ==
    [heap |-> heap, data |-> data, alloc |-> alloc, fails |-> fails, n |-> 0,
     g |-> g, thrown |-> FALSE, err |-> "none", faults |-> {}, r |-> NullPtr,
     q |-> NullPtr, v |-> 0]

Fault(m, f)  == [m EXCEPT !.faults = @ \cup {f}]
Throw(m)     == [m EXCEPT !.thrown = TRUE]
ThrowAs(m, e) == [m EXCEPT !.thrown = TRUE, !.err = e]
Caught(m)    == [m EXCEPT !.thrown = FALSE]
Tick(m)      == [m EXCEPT !.n = @ + 1, !.thrown = (m.n + 1) \in m.fails,
                          !.err = IF (m.n + 1) \in m.fails THEN "element" ELSE @]

Valid(m, b, o) ==
    b \in BlockIds /\ m.heap[b].live /\ o >= 0 /\ o < Len(m.heap[b].slots)
SlotAt(m, b, o) == IF Valid(m, b, o) THEN m.heap[b].slots[o + 1] ELSE Raw
SetSlot(m, b, o, v) ==
    IF Valid(m, b, o) THEN [m EXCEPT !.heap[b].slots[o + 1] = v]
    ELSE Fault(m, "wild_write")

\* *p for reading: an uninitialised slot yields an arbitrary value
ReadVal(m, b, o) == IF SlotAt(m, b, o) = Raw THEN m.g ELSE SlotAt(m, b, o)
ReadChk(m, b, o) == IF SlotAt(m, b, o) = Raw THEN Fault(m, "read_uninit") ELSE m

\* allocator_traits::construct on an uninitialised slot
construct(m, b, o, v, fallible) ==
    LET t == IF fallible THEN Tick(m) ELSE m
    IN  IF t.thrown THEN t
        ELSE SetSlot(IF SlotAt(t, b, o) # Raw THEN Fault(t, "construct_over_live") ELSE t,
                     b, o, v)

\* allocator_traits::destroy; on a slot that holds no element (a second
\* destroy) the behaviour is undefined: the call records the fault, and a
\* build that goes on leaves the slot unconstructed
destroy(m, b, o) ==
    SetSlot(IF SlotAt(m, b, o) = Raw THEN Fault(m, "destroy_unconstructed") ELSE m,
            b, o, Raw)

\* *p = v on a constructed element
assignTo(m, b, o, v, fallible) ==
    LET t == IF fallible THEN Tick(m) ELSE m
    IN  IF t.thrown THEN t
        ELSE SetSlot(IF SlotAt(t, b, o) = Raw THEN Fault(t, "assign_unconstructed") ELSE t,
                     b, o, v)

RECURSIVE destroy_range(_, _, _, _)
destroy_range(m, b, lo, hi) ==
    IF lo >= hi THEN m ELSE destroy_range(destroy(m, b, lo), b, lo + 1, hi)

\* allocator_traits::allocate: the lowest free address; r is the new block.
\* The container passes n on unchecked: an allocator that enforces its
\* max_size (std::allocator) throws std::bad_array_new_length, another one
\* serves the request.
FreeIds(m) == {b \in BlockIds : ~m.heap[b].live}
allocate(m, a, n) ==
    IF traits.allocEnforcesMax /\ n > traits.maxSize THEN ThrowAs(m, "length")
    ELSE IF FreeIds(m) = {} THEN ThrowAs(m, "alloc")
    ELSE LET b == CHOOSE x \in FreeIds(m) : \A y \in FreeIds(m) : x <= y
         IN  [m EXCEPT !.heap[b] = [live |-> TRUE, alloc |-> a,
                                    slots |-> [k \in 1 .. n |-> Raw]],
                       !.r = Ptr(b, 0)]

\* allocator_traits::deallocate
deallocate(m, a, b, n) ==
    IF ~(b \in BlockIds /\ m.heap[b].live) THEN Fault(m, "bad_free")
    ELSE LET blk == m.heap[b]
             f1  == IF blk.alloc # a /\ ~traits.alwaysEqual
                    THEN Fault(m, "foreign_free") ELSE m
             f2  == IF \E k \in 1 .. Len(blk.slots) : blk.slots[k] # Raw
                    THEN Fault(f1, "freed_live_element") ELSE f1
         IN  [f2 EXCEPT !.heap[b] = NoBlock]

\* ------------------------------------------------------------- sources
\* An iterator range: values of the caller (ext), or elements of a block
\* read through pointers, moved from when mv (std::move_iterator).
ExtSrc(vals)       == [ext |-> TRUE, vals |-> vals, b |-> NULL, o |-> 0, mv |-> FALSE]
PtrSrc(b, o, mv)   == [ext |-> FALSE, vals |-> <<>>, b |-> b, o |-> o, mv |-> mv]
SrcVal(m, s, j)    == IF s.ext THEN s.vals[j + 1] ELSE ReadVal(m, s.b, s.o + j)
SrcChk(m, s, j)    == IF s.ext THEN m ELSE ReadChk(m, s.b, s.o + j)
SrcTaken(m, s, j)  ==
    IF ~s.ext /\ s.mv /\ SlotAt(m, s.b, s.o + j) # Raw
    THEN SetSlot(m, s.b, s.o + j, MovedFrom) ELSE m
CtorFallible(s)    == IF s.mv THEN ~traits.nothrowMove ELSE TRUE
AsgnFallible(s)    == IF s.mv THEN ~traits.nothrowMoveAssign ELSE TRUE

\* ------------------------------------------------------ range primitives
PAdd(p, k)     == Ptr(p.b, p.o + k)
SrcFrom(s, k)  == IF s.ext THEN [s EXCEPT !.vals = SubSeq(s.vals, k + 1, Len(s.vals))]
                  ELSE [s EXCEPT !.o = @ + k]

\* uninitialised_copy / uninitialised_move: constructs cnt elements from s at
\* (b, o); a throw destroys what it constructed; r is the end of the output
RECURSIVE UninitLoop(_, _, _, _, _, _)
UninitLoop(m, s, j, cnt, b, o) ==
    IF j >= cnt THEN [m EXCEPT !.r = Ptr(b, o + cnt)]
    ELSE LET m1 == construct(SrcChk(m, s, j), b, o + j, SrcVal(m, s, j), CtorFallible(s))
         IN  IF m1.thrown THEN destroy_range(m1, b, o, o + j)
             ELSE UninitLoop(SrcTaken(m1, s, j), s, j + 1, cnt, b, o)

uninitialised_copy(m, s, cnt, b, o) == UninitLoop(m, s, 0, cnt, b, o)

\* copy / move / copy_until_sentinel: assigns cnt elements from s onto the
\* constructed elements at (b, o), front to back; r is the end of the output
RECURSIVE CopyLoop(_, _, _, _, _, _)
CopyLoop(m, s, j, cnt, b, o) ==
    IF j >= cnt THEN [m EXCEPT !.r = Ptr(b, o + cnt)]
    ELSE LET m1 == assignTo(SrcChk(m, s, j), b, o + j, SrcVal(m, s, j), AsgnFallible(s))
         IN  IF m1.thrown THEN m1
             ELSE CopyLoop(SrcTaken(m1, s, j), s, j + 1, cnt, b, o)

copy(m, s, cnt, b, o) == CopyLoop(m, s, 0, cnt, b, o)

\* backward_copy / backward_move: assigns cnt elements from s onto the
\* elements that end at (b, dlast), back to front; r is the start of the output
RECURSIVE BackLoop(_, _, _, _, _, _)
BackLoop(m, s, j, cnt, b, dlast) ==
    IF j < 0 THEN [m EXCEPT !.r = Ptr(b, dlast - cnt)]
    ELSE LET o  == dlast - (cnt - j)
             m1 == assignTo(SrcChk(m, s, j), b, o, SrcVal(m, s, j), AsgnFallible(s))
         IN  IF m1.thrown THEN m1
             ELSE BackLoop(SrcTaken(m1, s, j), s, j - 1, cnt, b, dlast)

backward_copy(m, s, cnt, b, dlast) == BackLoop(m, s, cnt - 1, cnt, b, dlast)

\* _ctg_duplicate: allocates capacity elements with allocator a, constructs
\* the range into the block; q is the block, r the end of the constructed
\* range; a failure releases the block and leaves q unset
ctg_duplicate(m, a, s, cnt, capacity) ==
    LET m1 == allocate(m, a, capacity)
    IN  IF m1.thrown THEN m1
        ELSE LET nf == m1.r
                 m2 == uninitialised_copy(m1, s, cnt, nf.b, nf.o)
             IN  IF m2.thrown THEN deallocate(m2, a, nf.b, capacity)
                 ELSE [m2 EXCEPT !.q = nf]

\* ------------------------------------------------------------ accessors
size(m, c)     == m.data[c].last.o - m.data[c].first.o
capacity(m, c) == m.data[c].end.o - m.data[c].first.o
max_size       == traits.maxSize
AllocNeq(a1, a2) == ~traits.alwaysEqual /\ a1 # a2

\* ------------------------------------------------- block management
\* a faulty steal that leaves the source's last pointer in place
steal_keeps_last(m, c, o) ==
    LET old == m.data[o]
    IN  [m EXCEPT !.data = [[m.data EXCEPT ![o] = [NullData EXCEPT !.last = old.last]]
                               EXCEPT ![c] = old]]

steal(m, c, o) ==
    LET old == m.data[o]
    IN  [m EXCEPT !.data = [[m.data EXCEPT ![o] = NullData] EXCEPT ![c] = old]]

clear_dealloc(m, c) ==
    LET d == m.data[c]
    IN  IF d.first # NullPtr
        THEN deallocate(destroy_range(m, d.first.b, d.first.o, d.last.o),
                        m.alloc[c], d.first.b, capacity(m, c))
        ELSE m

replace(m, c, new_first, new_last, new_capacity) ==
    LET m1 == clear_dealloc(m, c)
    IN  [m1 EXCEPT !.data[c] = [first |-> new_first, last |-> new_last,
                                end |-> PAdd(new_first, new_capacity)]]

unallocated_assign(m, c, s, cnt, cap) ==
    LET m1 == ctg_duplicate(m, m.alloc[c], s, cnt, cap)
    IN  IF m1.thrown THEN m1
        ELSE [m1 EXCEPT !.data[c] = [first |-> m1.q, last |-> m1.r,
                                     end |-> PAdd(m1.q, cap)]]

\* variant: the old block is released before the new one is populated
resize_assign_release_first(m, c, a, s, cnt, new_capacity) ==
    LET m0 == clear_dealloc(m, c)
        m1 == ctg_duplicate(m0, a, s, cnt, new_capacity)
    IN  IF m1.thrown THEN m1
        ELSE [m1 EXCEPT !.data[c] = [first |-> m1.q, last |-> m1.r,
                                     end |-> PAdd(m1.q, new_capacity)]]

resize_assign(m, c, a, s, cnt, new_capacity) ==
    LET m1 == ctg_duplicate(m, a, s, cnt, new_capacity)
    IN  IF m1.thrown THEN m1
        ELSE replace(m1, c, m1.q, m1.r, new_capacity)

\* _alt_alloc_assign: the range s of length cnt, allocating with alt
alt_alloc_assign(m, c, alt, s, cnt) ==
    LET d == m.data[c]
        b == d.first.b
    IN  IF capacity(m, c) < cnt THEN resize_assign(m, c, alt, s, cnt, cnt)
        ELSE IF size(m, c) < cnt THEN
            LET m1 == copy(m, s, size(m, c), b, d.first.o)
            IN  IF m1.thrown THEN m1
                ELSE LET m2 == uninitialised_copy(m1, SrcFrom(s, size(m, c)),
                                                  cnt - size(m, c), b, d.last.o)
                     IN  IF m2.thrown THEN m2
                         ELSE [m2 EXCEPT !.data[c].last = m2.r]
        ELSE
            LET m1 == copy(m, s, cnt, b, d.first.o)
            IN  IF m1.thrown THEN m1
                ELSE [destroy_range(m1, b, m1.r.o, d.last.o) EXCEPT !.data[c].last = m1.r]

\* variant: assign that always takes a new block of the exact size
assign_always_resizes(m, c, s, cnt) ==
    resize_assign(m, c, m.alloc[c], s, cnt, cnt)

\* assign(first, last) with forward iterators
assign(m, c, s, cnt) == alt_alloc_assign(m, c, m.alloc[c], s, cnt)

\* operator=(const darray&)
copy_assign(m, c, o) ==
    LET od == m.data[o]
    IN  IF traits.pocca /\ AllocNeq(m.alloc[c], m.alloc[o])
        THEN LET m1 == alt_alloc_assign(m, c, m.alloc[o],
                                        PtrSrc(od.first.b, od.first.o, FALSE),
                                        od.last.o - od.first.o)
             IN  IF m1.thrown THEN m1 ELSE [m1 EXCEPT !.alloc[c] = m.alloc[o]]
        ELSE LET m0 == IF traits.pocca THEN [m EXCEPT !.alloc[c] = m.alloc[o]] ELSE m
             IN  assign(m0, c, PtrSrc(od.first.b, od.first.o, FALSE),
                        od.end.o - od.first.o)

\* a faulty copy constructor that takes the source's triad as it is
copy_construct_shallow(m, c, o, a) ==
    [m EXCEPT !.data[c] = m.data[o], !.alloc[c] = a]

\* darray(const darray&, const Alloc&)
copy_construct(m, c, o, a) ==
    LET od == m.data[o]
        m0 == [m EXCEPT !.data[c] = NullData, !.alloc[c] = a]
    IN  unallocated_assign(m0, c, PtrSrc(od.first.b, od.first.o, FALSE),
                           od.last.o - od.first.o, capacity(m, o))

\* darray(darray&&, const Alloc&)
move_construct_alloc(m, c, o, a) ==
    LET od == m.data[o]
        m0 == [m EXCEPT !.data[c] = NullData, !.alloc[c] = a]
    IN  IF AllocNeq(a, m.alloc[o])
        THEN unallocated_assign(m0, c, PtrSrc(od.first.b, od.first.o, TRUE),
                                od.last.o - od.first.o, capacity(m, o))
        ELSE steal(m0, c, o)

\* a faulty move constructor that leaves the source's triad in place
move_construct_keeps_source(m, c, o) ==
    [m EXCEPT !.alloc[c] = m.alloc[o], !.data[c] = m.data[o]]

\* darray(darray&&)
move_construct(m, c, o) ==
    [m EXCEPT !.alloc[c] = m.alloc[o],
              !.data = [[m.data EXCEPT ![c] = m.data[o]] EXCEPT ![o] = NullData]]

\* erase(first, last)
erase(m, c, i, j) ==
    LET d == m.data[c]
        naked_first == PAdd(d.first, i)
    IN  [destroy_range(m, d.first.b, naked_first.o, d.first.o + j)
            EXCEPT !.data[c].last = naked_first]

\* a faulty u_emplace_back that does not advance last
u_emplace_back_no_advance(m, c, s) ==
    LET d  == m.data[c]
        m1 == construct(SrcChk(m, s, 0), d.last.b, d.last.o, SrcVal(m, s, 0),
                        CtorFallible(s))
    IN  IF m1.thrown THEN m1 ELSE SrcTaken(m1, s, 0)

\* u_emplace_back: constructs element 0 of s at last, then ++last
u_emplace_back(m, c, s) ==
    LET d  == m.data[c]
        m1 == construct(SrcChk(m, s, 0), d.last.b, d.last.o, SrcVal(m, s, 0),
                        CtorFallible(s))
    IN  IF m1.thrown THEN m1
        ELSE [SrcTaken(m1, s, 0) EXCEPT !.data[c].last = PAdd(d.last, 1)]

\* a faulty _reversible_uninitialised_move that moves whatever the type
always_uninitialised_move(m, sb, so, cnt, b, o) ==
    uninitialised_copy(m, PtrSrc(sb, so, TRUE), cnt, b, o)

\* _reversible_uninitialised_move: moves when the move constructor cannot
\* throw, copies otherwise
reversible_uninitialised_move(m, sb, so, cnt, b, o) ==
    uninitialised_copy(m, PtrSrc(sb, so, traits.nothrowMove), cnt, b, o)

\* _calculate_growth: whether it throws, and the capacity it returns
\* size_type arithmetic: unsigned, SizeBits wide
SizeMod    == 2 ^ SizeBits
USub(a, b) == (a - b + SizeMod) % SizeMod
UAdd(a, b) == (a + b) % SizeMod

\* variant: additive growth that is never clamped to max_size
growth_unclamped(sz, M, min_capacity) ==
    IF M < min_capacity THEN [thrown |-> TRUE, v |-> 0]
    ELSE LET half_size == sz \div 2
         IN  [thrown |-> FALSE,
              v |-> IF min_capacity >= UAdd(sz, half_size) THEN min_capacity
                    ELSE UAdd(sz, half_size)]

\* _calculate_growth(min_capacity) of a container of size sz whose
\* max_size() is M: whether it throws and the capacity it returns
growth(sz, M, min_capacity) ==
    IF M < min_capacity THEN [thrown |-> TRUE, v |-> 0]
    ELSE LET half_size == sz \div 2
         IN  IF USub(M, half_size) < sz THEN [thrown |-> FALSE, v |-> M]
             ELSE [thrown |-> FALSE,
                   v |-> IF min_capacity >= UAdd(sz, half_size) THEN min_capacity
                         ELSE UAdd(sz, half_size)]

growth_throws(m, c, min_capacity) == growth(size(m, c), max_size, min_capacity).thrown
calculate_growth(m, c, min_capacity) == growth(size(m, c), max_size, min_capacity).v

\* emplace(at, args...), the branch with spare capacity and at # end
emplace_shift(m, c, i, v) ==
    LET d  == m.data[c]
        b  == d.first.b
        at == d.first.o + i
        before_last == d.last.o - 1
        m1 == u_emplace_back(m, c, PtrSrc(b, before_last, traits.nothrowMove))
    IN  IF m1.thrown THEN m1 ELSE
        LET m2 == backward_copy(m1, PtrSrc(b, at, TRUE), before_last - at, b,
                                before_last + 1)
        IN  IF m2.thrown THEN m2 ELSE
        LET post_at == m2.r.o
            m3 == destroy(m2, b, at)
            m4 == construct(m3, b, at, v, TRUE)
        IN  IF ~m4.thrown THEN [m4 EXCEPT !.r = Ptr(b, at)] ELSE
        LET s5 == PtrSrc(b, post_at, TRUE)
            m5 == construct(SrcChk(Caught(m4), s5, 0), b, at, SrcVal(m4, s5, 0),
                            CtorFallible(s5))
        IN  IF m5.thrown
            THEN [destroy_range(m5, b, post_at, m5.data[c].last.o)
                     EXCEPT !.data[c].last = Ptr(b, at)]
            ELSE
        LET m6 == copy(SrcTaken(m5, s5, 0), PtrSrc(b, post_at + 1, TRUE),
                       m5.data[c].last.o - (post_at + 1), b, post_at)
        IN  IF m6.thrown THEN m6 ELSE
        LET new_last == PAdd(m6.data[c].last, -1)
        IN  Throw([destroy(m6, b, new_last.o) EXCEPT !.data[c].last = new_last])

\* emplace(at, args...), the branch that reallocates
emplace_realloc(m, c, i, v) ==
    LET d == m.data[c]
        b == d.first.b
        at == d.first.o + i
    IN  IF growth_throws(m, c, capacity(m, c) + 1) THEN ThrowAs(m, "length") ELSE
        LET new_capacity == calculate_growth(m, c, capacity(m, c) + 1)
            m1 == allocate(m, m.alloc[c], new_capacity)
        IN  IF m1.thrown THEN m1 ELSE
        LET new_first    == m1.r
            nb           == new_first.b
            construct_at == PAdd(new_first, i)
            m2 == construct(m1, nb, construct_at.o, v, TRUE)
        IN  IF m2.thrown THEN deallocate(m2, m.alloc[c], nb, new_capacity) ELSE
        LET p1 == reversible_uninitialised_move(m2, b, d.first.o, i, nb, new_first.o)
            \* new_last as the catch block sees it, and the state it starts from
            p2 == IF p1.thrown THEN p1
                  ELSE IF at = d.last.o THEN p1
                  ELSE reversible_uninitialised_move(p1, b, at, d.last.o - at,
                                                     nb, p1.r.o + 1)
            new_last == IF p1.thrown THEN new_first
                        ELSE IF at = d.last.o \/ p2.thrown THEN PAdd(p1.r, 1)
                        ELSE p2.r
        IN  IF p2.thrown
            THEN LET c1 == destroy_range(p2, nb, new_first.o, new_last.o)
                     c2 == destroy(c1, nb, construct_at.o)
                 IN  deallocate(c2, m.alloc[c], nb, new_capacity)
            ELSE [replace(p2, c, new_first, new_last, new_capacity)
                     EXCEPT !.r = construct_at]

\* emplace(at, args...)
emplace(m, c, i, v) ==
    LET d == m.data[c]
    IN  IF d.last # d.end
        THEN IF PAdd(d.first, i) = d.last
             THEN [u_emplace_back(m, c, ExtSrc(<<v>>)) EXCEPT !.r = d.last]
             ELSE emplace_shift(m, c, i, v)
        ELSE emplace_realloc(m, c, i, v)

\* insert(at, first, last) with forward iterators, the branch that reallocates
\* variant: the clean-up keeps destroying from behind the prefix even after
\* the prefix was migrated
insert_realloc_keeps_prefix(m, c, i, R) ==
    LET d == m.data[c]
        b == d.first.b
        at == d.first.o + i
        range_size == Len(R)
    IN  IF growth_throws(m, c, size(m, c) + range_size) THEN ThrowAs(m, "length") ELSE
        LET new_capacity == calculate_growth(m, c, size(m, c) + range_size)
            m1 == allocate(m, m.alloc[c], new_capacity)
        IN  IF m1.thrown THEN m1 ELSE
        LET new_first == m1.r
            nb        == new_first.b
            m2 == uninitialised_copy(m1, ExtSrc(R), range_size, nb, new_first.o + i)
        IN  IF m2.thrown THEN deallocate(m2, m.alloc[c], nb, new_capacity) ELSE
        LET range_last == m2.r
            p1 == reversible_uninitialised_move(m2, b, d.first.o, i, nb, new_first.o)
            p2 == IF p1.thrown THEN p1
                  ELSE reversible_uninitialised_move(p1, b, at, d.last.o - at,
                                                     nb, range_last.o)
            constructed_last == PAdd(new_first, i)
        IN  IF p2.thrown
            THEN deallocate(destroy_range(p2, nb, constructed_last.o, range_last.o),
                            m.alloc[c], nb, new_capacity)
            ELSE replace(p2, c, new_first, p2.r, new_capacity)

insert_realloc(m, c, i, R) ==
    LET d == m.data[c]
        b == d.first.b
        at == d.first.o + i
        range_size == Len(R)
    IN  IF growth_throws(m, c, size(m, c) + range_size) THEN ThrowAs(m, "length") ELSE
        LET new_capacity == calculate_growth(m, c, size(m, c) + range_size)
            m1 == allocate(m, m.alloc[c], new_capacity)
        IN  IF m1.thrown THEN m1 ELSE
        LET new_first == m1.r
            nb        == new_first.b
            m2 == uninitialised_copy(m1, ExtSrc(R), range_size, nb, new_first.o + i)
        IN  IF m2.thrown THEN deallocate(m2, m.alloc[c], nb, new_capacity) ELSE
        LET range_last == m2.r
            p1 == reversible_uninitialised_move(m2, b, d.first.o, i, nb, new_first.o)
            p2 == IF p1.thrown THEN p1
                  ELSE reversible_uninitialised_move(p1, b, at, d.last.o - at,
                                                     nb, range_last.o)
            constructed_last == IF p1.thrown THEN PAdd(new_first, i) ELSE new_first
        IN  IF p2.thrown
            THEN deallocate(destroy_range(p2, nb, constructed_last.o, range_last.o),
                            m.alloc[c], nb, new_capacity)
            ELSE replace(p2, c, new_first, p2.r, new_capacity)

\* insert, in place, the incoming range shorter than the shifted run
insert_inplace_short(m, c, i, R) ==
    LET d == m.data[c]
        b == d.first.b
        at == d.first.o + i
        range_size == Len(R)
        uninit_shift_begin == d.last.o - range_size
        m1 == reversible_uninitialised_move(m, b, uninit_shift_begin, range_size,
                                            b, d.last.o)
    IN  IF m1.thrown THEN m1 ELSE
        LET new_last == m1.r
            m2 == backward_copy(m1, PtrSrc(b, at, traits.nothrowMoveAssign),
                                uninit_shift_begin - at, b, d.last.o)
        IN  IF m2.thrown
            THEN \* only backward_copy can throw: undo the uninitialised shift
                 LET u1 == copy(Caught(m2), PtrSrc(b, d.last.o, TRUE),
                                new_last.o - d.last.o, b, uninit_shift_begin)
                 IN  IF u1.thrown THEN [u1 EXCEPT !.data[c].last = new_last]
                     ELSE Throw(destroy_range(u1, b, d.last.o, new_last.o))
            ELSE
        LET insert_end == m2.r
            m3 == copy(m2, ExtSrc(R), range_size, b, at)
        IN  IF m3.thrown
            THEN LET u1 == copy(Caught(m3), PtrSrc(b, insert_end.o, TRUE),
                                new_last.o - insert_end.o, b, at)
                 IN  IF u1.thrown THEN [u1 EXCEPT !.data[c].last = new_last]
                     ELSE Throw(destroy_range(u1, b, d.last.o, new_last.o))
            ELSE [m3 EXCEPT !.data[c].last = new_last]

\* insert, in place, the incoming range reaching the uninitialised space
insert_inplace_long(m, c, i, R) ==
    LET d == m.data[c]
        b == d.first.b
        at == d.first.o + i
        range_size == Len(R)
        shift_count == d.last.o - at
        uninit_shift_dest == at + range_size
        m1 == reversible_uninitialised_move(m, b, at, shift_count, b, uninit_shift_dest)
    IN  IF m1.thrown THEN m1 ELSE
        LET new_last == m1.r
            m2 == copy(m1, ExtSrc(R), shift_count, b, at)
            m3 == IF m2.thrown THEN m2
                  ELSE uninitialised_copy(m2, SrcFrom(ExtSrc(R), shift_count),
                                          range_size - shift_count, b, d.last.o)
        IN  IF m3.thrown
            THEN LET u1 == copy(Caught(m3), PtrSrc(b, uninit_shift_dest, TRUE),
                                new_last.o - uninit_shift_dest, b, at)
                 IN  Throw(destroy_range(u1, b, uninit_shift_dest, new_last.o))
            ELSE [m3 EXCEPT !.data[c].last = new_last]

\* a faulty insert that takes a range of one element for an empty one
insert_skips_single(m, c, i, R) ==
    LET d == m.data[c]
        range_size      == Len(R)
        unused_capacity == d.end.o - d.last.o
    IN  IF range_size <= 1 THEN m
        ELSE IF unused_capacity < range_size THEN insert_realloc(m, c, i, R)
        ELSE IF range_size < d.last.o - (d.first.o + i)
             THEN insert_inplace_short(m, c, i, R)
        ELSE insert_inplace_long(m, c, i, R)

\* insert(at, first, last) with forward iterators
insert(m, c, i, R) ==
    LET d == m.data[c]
        range_size      == Len(R)
        unused_capacity == d.end.o - d.last.o
    IN  IF range_size = 0 THEN m
        ELSE IF unused_capacity < range_size THEN insert_realloc(m, c, i, R)
        ELSE IF range_size < d.last.o - (d.first.o + i)
             THEN insert_inplace_short(m, c, i, R)
        ELSE insert_inplace_long(m, c, i, R)

\* _unchecked_grow_exactly
unchecked_grow_exactly(m, c, new_capacity) ==
    LET d == m.data[c]
    IN  IF traits.nothrowMove
        THEN LET m1 == allocate(m, m.alloc[c], new_capacity)
             IN  IF m1.thrown THEN m1
                 ELSE LET m2 == uninitialised_copy(m1, PtrSrc(d.first.b, d.first.o, TRUE),
                                                   size(m, c), m1.r.b, m1.r.o)
                      IN  replace(m2, c, m1.r, m2.r, new_capacity)
        ELSE resize_assign(m, c, m.alloc[c], PtrSrc(d.first.b, d.first.o, FALSE),
                           d.end.o - d.first.o, new_capacity)

\* reserve(size)
\* variant: grows when the capacity already equals the request
reserve_grows_on_equal(m, c, n) ==
    IF capacity(m, c) <= n THEN unchecked_grow_exactly(m, c, n) ELSE m

reserve(m, c, n) ==
    IF capacity(m, c) < n THEN unchecked_grow_exactly(m, c, n) ELSE m

\* shrink_to_fit
\* variant: the new block keeps the old capacity
shrink_to_fit_keeps_capacity(m, c) ==
    LET d == m.data[c]
    IN  IF d.last # d.end
        THEN LET m1 == allocate(m, m.alloc[c], capacity(m, c))
             IN  IF m1.thrown THEN m1 ELSE
                 LET m2 == reversible_uninitialised_move(m1, d.first.b, d.first.o,
                                                         size(m, c), m1.r.b, m1.r.o)
                 IN  IF m2.thrown THEN deallocate(m2, m.alloc[c], m1.r.b, capacity(m, c))
                     ELSE replace(m2, c, m1.r, m2.r, capacity(m, c))
        ELSE m

shrink_to_fit(m, c) ==
    LET d == m.data[c]
    IN  IF d.last # d.end
        THEN LET m1 == allocate(m, m.alloc[c], size(m, c))
             IN  IF m1.thrown THEN m1 ELSE
                 LET m2 == reversible_uninitialised_move(m1, d.first.b, d.first.o,
                                                         size(m, c), m1.r.b, m1.r.o)
                 IN  IF m2.thrown THEN deallocate(m2, m.alloc[c], m1.r.b, size(m, c))
                     ELSE replace(m2, c, m1.r, m2.r, size(m, c))
        ELSE m

\* emplace_back / push_back: emplace at cend()
\* variant: emplaces at the beginning
emplace_back_at_front(m, c, v) == emplace(m, c, 0, v)
emplace_back(m, c, v) == emplace(m, c, size(m, c), v)
push_back(m, c, v)    == emplace_back(m, c, v)

\* for (; first != last; ++first) emplace_back(*first);
RECURSIVE AppendLoop(_, _, _, _, _)
AppendLoop(m, c, s, j, cnt) ==
    LET Rest(m1) == IF m1.thrown THEN m1
                    ELSE AppendLoop(SrcTaken(m1, s, j), c, s, j + 1, cnt)
    IN  IF j >= cnt THEN m
        ELSE Rest(emplace_back(SrcChk(m, s, j), c, SrcVal(m, s, j)))

\* assign(first, last) with input iterators that are not forward iterators
assign_single_pass(m, c, s, cnt) ==
    LET d  == m.data[c]
        k  == IF size(m, c) < cnt THEN size(m, c) ELSE cnt
        m1 == copy(m, s, k, d.first.b, d.first.o)
    IN  IF m1.thrown THEN m1
        ELSE AppendLoop([destroy_range(m1, d.first.b, d.first.o + k, d.last.o)
                            EXCEPT !.data[c].last = PAdd(d.first, k)],
                        c, s, k, cnt)

\* variant: move assignment that takes the block whatever the allocators
move_assign_always_steals(m, c, o) == steal(clear_dealloc(m, c), c, o)

\* operator=(darray&&); std::move_iterator over pointers is a forward
\* iterator or an input iterator only, depending on the standard library
move_assign(m, c, o) ==
    LET od == m.data[o]
    IN  IF ~traits.pocma /\ AllocNeq(m.alloc[c], m.alloc[o])
        THEN IF traits.moveIterForward
             THEN assign(m, c, PtrSrc(od.first.b, od.first.o, TRUE),
                         od.last.o - od.first.o)
             ELSE assign_single_pass(m, c, PtrSrc(od.first.b, od.first.o, TRUE),
                                     od.last.o - od.first.o)
        ELSE LET m1 == clear_dealloc(m, c)
                 m2 == IF traits.pocma THEN [m1 EXCEPT !.alloc[c] = m.alloc[o]] ELSE m1
             IN  steal(m2, c, o)

\* std::swap of the elements at x and y of block b: a move construction
\* and two move assignments
swap(m, b, x, y) ==
    LET vx == ReadVal(m, b, x)
        vy == ReadVal(m, b, y)
        t1 == IF traits.nothrowMove THEN m ELSE Tick(m)
    IN  IF t1.thrown THEN t1 ELSE
        LET a1 == assignTo(SetSlot(t1, b, x, MovedFrom), b, x, vy,
                           ~traits.nothrowMoveAssign)
        IN  IF a1.thrown THEN a1
            ELSE assignTo(SetSlot(a1, b, y, MovedFrom), b, y, vx,
                          ~traits.nothrowMoveAssign)

\* std::rotate(first, middle, last) by successive swaps
RECURSIVE RotateLoop(_, _, _, _, _, _)
RotateLoop(m, b, first, middle, next, last) ==
    IF first = next THEN m
    ELSE LET m1 == swap(m, b, first, next)
         IN  IF m1.thrown THEN m1
             ELSE IF next + 1 = last
                  THEN RotateLoop(m1, b, first + 1, middle, middle, last)
                  ELSE IF first + 1 = middle
                       THEN RotateLoop(m1, b, first + 1, next + 1, next + 1, last)
                       ELSE RotateLoop(m1, b, first + 1, middle, next + 1, last)

rotate(m, b, first, middle, last) ==
    IF first = middle \/ middle = last THEN m
    ELSE RotateLoop(m, b, first, middle, middle, last)

\* variant: the appended run is left at the end
insert_single_pass_no_rotate(m, c, i, R) == AppendLoop(m, c, ExtSrc(R), 0, Len(R))

\* insert(at, first, last) with input iterators that are not forward
\* iterators
insert_single_pass(m, c, i, R) ==
    LET at_index  == i
        prev_size == size(m, c)
        Rotated(m1, d) == rotate(m1, d.first.b, d.first.o + at_index,
                                 d.first.o + prev_size, d.last.o)
        Appended(m1) == IF m1.thrown THEN m1
                        ELSE IF at_index # prev_size THEN Rotated(m1, m1.data[c])
                             ELSE m1
    IN  Appended(AppendLoop(m, c, ExtSrc(R), 0, Len(R)))

\* empty, unchecked_front / unchecked_back, and the checked front / back
empty(m, c) == m.data[c].last = m.data[c].first
unchecked_front(m, c) ==
    [ReadChk(m, m.data[c].first.b, m.data[c].first.o)
        EXCEPT !.v = ReadVal(m, m.data[c].first.b, m.data[c].first.o)]
unchecked_back(m, c) ==
    [ReadChk(m, m.data[c].last.b, m.data[c].last.o - 1)
        EXCEPT !.v = ReadVal(m, m.data[c].last.b, m.data[c].last.o - 1)]
\* variant: no emptiness check
front_unchecked(m, c) == unchecked_front(m, c)
front(m, c) ==
    IF ~empty(m, c) THEN unchecked_front(m, c) ELSE ThrowAs(m, "out_of_range")
back(m, c) ==
    IF ~empty(m, c) THEN unchecked_back(m, c) ELSE ThrowAs(m, "out_of_range")

\* ------------------------------------------------------- observations
\* the element sequence [first, last) of a container with triad d in heap h
ElemsIn(h, d) ==
    [k \in 1 .. (d.last.o - d.first.o) |-> SlotAt([heap |-> h], d.first.b, d.first.o + k - 1)]
\* the slots [last, end) of its block
SpareIn(h, d) ==
    [k \in 1 .. (d.end.o - d.last.o) |-> SlotAt([heap |-> h], d.last.b, d.last.o + k - 1)]
ViewIn(h, dt, al, c) ==
    [data |-> dt[c], alloc |-> al[c], size |-> dt[c].last.o - dt[c].first.o,
     cap |-> dt[c].end.o - dt[c].first.o, elems |-> ElemsIn(h, dt[c])]
Elems(c) == ElemsIn(heap, data[c])
Spare(c) == SpareIn(heap, data[c])
View(c)  == ViewIn(heap, data, alloc, c)
Size(c)  == data[c].last.o - data[c].first.o
Cap(c)   == data[c].end.o - data[c].first.o

\* ------------------------------------------------------------- traits
\* std::is_nothrow_move_constructible_v<Type>, is_nothrow_move_assignable_v,
\* and the allocator's propagate_on_container_copy_assignment,
\* propagate_on_container_move_assignment and is_always_equal
TypeTraits ==
    {[nothrowMove |-> TRUE,  nothrowMoveAssign |-> TRUE],
     [nothrowMove |-> FALSE, nothrowMoveAssign |-> FALSE]}
TraitsOf(t, pocca, pocma, alwaysEqual, maxSize, enforces) ==
    [nothrowMove |-> t.nothrowMove, nothrowMoveAssign |-> t.nothrowMoveAssign,
     pocca |-> pocca, pocma |-> pocma, alwaysEqual |-> alwaysEqual,
     maxSize |-> maxSize, allocEnforcesMax |-> enforces,
     moveIterForward |-> TRUE]
\* std::allocator: always equal, propagates on move assignment only
TraitChoices     == {TraitsOf(t, FALSE, TRUE, TRUE, MaxSize, TRUE) : t \in TypeTraits}
\* the same allocator, an element type whose copy and move can throw
PairTraitChoices ==
    {TraitsOf(t, FALSE, TRUE, TRUE, PairMaxSize, TRUE) :
        t \in {x \in TypeTraits : ~x.nothrowMove /\ ~x.nothrowMoveAssign}}
\* std::allocator or an allocator that does not enforce its max_size
GrowTraitChoices ==
    {TraitsOf(t, FALSE, TRUE, TRUE, GrowMaxSize, e) : t \in TypeTraits, e \in BOOLEAN}
\* stateful allocators that propagate on copy and move assignment or on
\* neither, a nothrow-movable type
AllocTraitChoices ==
    {TraitsOf(t, p, p, FALSE, PairMaxSize, TRUE) :
        t \in {x \in TypeTraits : x.nothrowMove /\ x.nothrowMoveAssign},
        p \in BOOLEAN}

\* std::allocator with a max_size of GrowMaxSize
SingleTraitChoices ==
    {TraitsOf(t, FALSE, TRUE, TRUE, GrowMaxSize, TRUE) : t \in TypeTraits}

\* allocators that compare unequal and do not propagate on move
\* assignment, with either kind of std::move_iterator
MoveTraitChoices ==
    {[TraitsOf(t, FALSE, FALSE, FALSE, PairMaxSize, TRUE)
         EXCEPT !.moveIterForward = f] :
        t \in {x \in TypeTraits : x.nothrowMove /\ x.nothrowMoveAssign},
        f \in BOOLEAN}

\* std::allocator and an element type that moves without throwing
OwnTraitChoices ==
    {TraitsOf(t, FALSE, TRUE, TRUE, PairMaxSize, TRUE) :
        t \in {x \in TypeTraits : x.nothrowMove /\ x.nothrowMoveAssign}}

\* the fallible steps of one call that throw: at most two (a second one can
\* only matter inside a catch block)
FailSets == {F \in SUBSET (1 .. MaxFail) : Cardinality(F) <= 2}
FailOne  == {F \in SUBSET (1 .. MaxSize + 1) : Cardinality(F) <= 1}
PairFails == {F \in FailOne : \A k \in F : k <= PairMaxSize}

NoOp == [op |-> "init", c |-> 0, o |-> 0, i |-> 0, j |-> 0, R |-> <<>>,
         thrown |-> FALSE, err |-> "none", n |-> 0, failed |-> {},
         realloc |-> FALSE, r |-> NullPtr, v |-> 0,
         faults |-> {}, pre |-> <<>>, preCap |-> 0]

\* pushed, once a call other than push_back was made
Untracked == <<0>>

MutatorOps == {"assign", "erase", "emplace", "insert", "reserve", "shrink_to_fit"}

InitWith(choices, live, det, track) ==
    /\ heap   = [b \in BlockIds |-> NoBlock]
    /\ data   = [c \in Conts |-> NullData]
    /\ alloc  = [c \in Conts |-> 1]
    /\ alive  = [c \in Conts |-> c \in live]
    /\ traits \in choices
    /\ detail = det
    /\ copyOf = [c \in Conts |-> 0]
    /\ pushed = IF track THEN <<>> ELSE Untracked
    /\ lastOp = NoOp

\* one default-constructed container
Init     == InitWith(TraitChoices, {1}, TRUE, FALSE)
\* two default-constructed containers
InitPair == InitWith(PairTraitChoices, {1, 2}, FALSE, FALSE)
\* one default-constructed container whose push_backs are followed
InitGrow == InitWith(GrowTraitChoices, {1}, TRUE, TRUE)
\* one default-constructed container that can grow to GrowMaxSize
InitSingle == InitWith(SingleTraitChoices, {1}, TRUE, FALSE)
\* two default-constructed containers with non-propagating allocators
InitMove == InitWith(MoveTraitChoices, {1, 2}, FALSE, FALSE)
\* two default-constructed containers of nothrow-movable elements
InitOwn  == InitWith(OwnTraitChoices, {1, 2}, FALSE, FALSE)
\* the same, with allocators that may compare unequal
InitAlloc == InitWith(AllocTraitChoices, {1, 2}, FALSE, FALSE)

\* the call's effect on the program state, and its record
Finish(m, op, c, o, i, j, R) ==
    /\ heap'   = m.heap
    /\ data'   = m.data
    /\ alloc'  = m.alloc
    /\ lastOp' = IF detail
                 THEN [op |-> op, c |-> c, o |-> o, i |-> i, j |-> j, R |-> R,
                       thrown |-> m.thrown,
                       err |-> IF m.thrown THEN m.err ELSE "none",
                       n |-> IF m.thrown THEN m.n ELSE 0,
                       failed |-> IF m.thrown /\ op = "emplace"
                                  THEN m.fails \cap (1 .. m.n) ELSE {},
                       realloc |-> (m.data[c].first # data[c].first),
                       r |-> IF m.thrown THEN NullPtr ELSE m.r,
                       v |-> IF m.thrown THEN 0 ELSE m.v, faults |-> m.faults,
                       pre |-> Elems(c), preCap |-> Cap(c)]
                 ELSE [NoOp EXCEPT !.op = op, !.c = c, !.o = o, !.thrown = m.thrown]
    /\ copyOf' = [x \in Conts |->
                    IF op = "copy_construct" /\ ~m.thrown /\ x = c THEN o
                    ELSE IF op \in MutatorOps /\ x = c THEN copyOf[x]
                    ELSE 0]
    /\ pushed' = IF pushed # Untracked /\ op = "push_back"
                 THEN IF m.thrown THEN pushed ELSE pushed \o R
                 ELSE Untracked
    /\ UNCHANGED <<traits, detail>>

\* a constructor that throws leaves no object behind
FinishCtor(m, op, c, o) ==
    LET m1 == IF m.thrown THEN [m EXCEPT !.data[c] = NullData, !.alloc[c] = 1] ELSE m
    IN  /\ Finish(m1, op, c, o, 0, 0, <<>>)
        /\ alive' = [alive EXCEPT ![c] = ~m.thrown]

AllocChoices == IF traits.alwaysEqual THEN {1} ELSE AllocIds

\* darray(const Alloc&)
Construct(c, a) ==
    /\ ~alive[c]
    /\ FinishCtor([Machine({}, 1) EXCEPT !.data[c] = NullData, !.alloc[c] = a],
                  "construct", c, 0)

CopyConstruct(c, o, a, fails, g) ==
    /\ ~alive[c] /\ alive[o] /\ c # o
    /\ FinishCtor(copy_construct(Machine(fails, g), c, o, a), "copy_construct", c, o)

MoveConstruct(c, o) ==
    /\ ~alive[c] /\ alive[o] /\ c # o
    /\ FinishCtor(move_construct(Machine({}, 1), c, o), "move_construct", c, o)

MoveConstructAlloc(c, o, a, fails, g) ==
    /\ ~alive[c] /\ alive[o] /\ c # o
    /\ FinishCtor(move_construct_alloc(Machine(fails, g), c, o, a),
                  "move_construct_alloc", c, o)

\* ~darray()
Destroy(c) ==
    /\ alive[c]
    /\ LET m == clear_dealloc(Machine({}, 1), c)
       IN  Finish([m EXCEPT !.data[c] = NullData, !.alloc[c] = 1], "destroy", c, 0, 0, 0, <<>>)
    /\ alive' = [alive EXCEPT ![c] = FALSE]

CopyAssign(c, o, fails, g) ==
    /\ alive[c] /\ alive[o] /\ c # o
    /\ Finish(copy_assign(Machine(fails, g), c, o), "copy_assign", c, o, 0, 0, <<>>)
    /\ UNCHANGED alive

\* operator=(darray&&) is noexcept: a throw inside it ends the program
MoveAssign(c, o, fails, g) ==
    /\ alive[c] /\ alive[o] /\ c # o
    /\ LET Returned(m) == ~m.thrown /\ Finish(m, "move_assign", c, o, 0, 0, <<>>)
       IN  Returned(move_assign(Machine(fails, g), c, o))
    /\ UNCHANGED alive

\* x = x
SelfCopyAssign(c) ==
    /\ alive[c]
    /\ Finish(copy_assign(Machine({}, 1), c, c), "copy_assign", c, c, 0, 0, <<>>)
    /\ UNCHANGED alive

\* x = std::move(x)
SelfMoveAssign(c) ==
    /\ alive[c]
    /\ Finish(move_assign(Machine({}, 1), c, c), "move_assign", c, c, 0, 0, <<>>)
    /\ UNCHANGED alive

Assign(c, R, fails) ==
    /\ alive[c]
    /\ Finish(assign(Machine(fails, 1), c, ExtSrc(R), Len(R)), "assign", c, 0, 0, 0, R)
    /\ UNCHANGED alive

Erase(c, i, j) ==
    /\ alive[c] /\ i <= j /\ j <= Size(c)
    /\ Finish(erase(Machine({}, 1), c, i, j), "erase", c, 0, i, j, <<>>)
    /\ UNCHANGED alive

Emplace(c, i, v, fails) ==
    /\ alive[c] /\ i <= Size(c)
    /\ Finish(emplace(Machine(fails, 1), c, i, v), "emplace", c, 0, i, 0, <<v>>)
    /\ UNCHANGED alive

Insert(c, i, R, fails) ==
    /\ alive[c] /\ i <= Size(c)
    /\ Finish(insert(Machine(fails, 1), c, i, R), "insert", c, 0, i, 0, R)
    /\ UNCHANGED alive

InsertSinglePass(c, i, R, fails) ==
    /\ alive[c] /\ i <= Size(c)
    /\ Finish(insert_single_pass(Machine(fails, 1), c, i, R),
              "insert_single_pass", c, 0, i, 0, R)
    /\ UNCHANGED alive

Reserve(c, n, fails, g) ==
    /\ alive[c]
    /\ Finish(reserve(Machine(fails, g), c, n), "reserve", c, 0, n, 0, <<>>)
    /\ UNCHANGED alive

ShrinkToFit(c, fails) ==
    /\ alive[c]
    /\ Finish(shrink_to_fit(Machine(fails, 1), c), "shrink_to_fit", c, 0, 0, 0, <<>>)
    /\ UNCHANGED alive

PushBack(c, v, fails) ==
    /\ alive[c]
    /\ Finish(push_back(Machine(fails, 1), c, v), "push_back", c, 0, Size(c), 0, <<v>>)
    /\ UNCHANGED alive

Front(c) ==
    /\ alive[c]
    /\ Finish(front(Machine({}, 1), c), "front", c, 0, 0, 0, <<>>)
    /\ UNCHANGED alive

Back(c) ==
    /\ alive[c]
    /\ Finish(back(Machine({}, 1), c), "back", c, 0, 0, 0, <<>>)
    /\ UNCHANGED alive

\* the mutators of container c, with one failure drawn from F1 or up to two
\* from F2 (emplace has a catch block inside a catch block)
Mutate(c, F1, F2) ==
    \/ \E R \in Ranges, fails \in F1 : Assign(c, R, fails)
    \/ \E i \in 0 .. Size(c), j \in 0 .. Size(c) : Erase(c, i, j)
    \/ \E i \in 0 .. Size(c), v \in Values, fails \in F2 : Emplace(c, i, v, fails)
    \/ \E i \in 0 .. Size(c), R \in Ranges, fails \in F1 : Insert(c, i, R, fails)
    \/ \E n \in 0 .. traits.maxSize + 1, fails \in F1, g \in Values :
          Reserve(c, n, fails, g)
    \/ \E fails \in F1 : ShrinkToFit(c, fails)

\* construction, copy, move and destruction among the containers
Lifecycle ==
    \/ \E c \in Conts, a \in AllocChoices : Construct(c, a)
    \/ \E c, o \in Conts, a \in AllocChoices, fails \in PairFails :
          CopyConstruct(c, o, a, fails, 1)
    \/ \E c, o \in Conts : MoveConstruct(c, o)
    \/ \E c, o \in Conts, a \in AllocChoices, fails \in PairFails :
          MoveConstructAlloc(c, o, a, fails, 1)
    \/ \E c \in Conts : Destroy(c)
    \/ \E c, o \in Conts, fails \in PairFails, g \in Values : CopyAssign(c, o, fails, g)
    \/ \E c, o \in Conts, fails \in PairFails : MoveAssign(c, o, fails, 1)

\* filling a container: the mutators that set its size and capacity
Fill(c) ==
    \/ \E R \in Ranges : Assign(c, R, {})
    \/ \E n \in 0 .. traits.maxSize, g \in Values : Reserve(c, n, {}, g)

\* growth and access: push_back, the calls that can ask for more than
\* max_size, and the checked accessors
Grow(c) ==
    \/ \E v \in Values, fails \in FailOne : PushBack(c, v, fails)
    \/ \E i \in 0 .. Size(c), v \in Values : Emplace(c, i, v, {})
    \/ \E i \in 0 .. Size(c), R \in Ranges : Insert(c, i, R, {})
    \/ \E n \in 0 .. traits.maxSize + 1 : Reserve(c, n, {}, 1)
    \/ Front(c)
    \/ Back(c)

Next      == Mutate(1, FailOne, FailSets)
NextGrow  == Grow(1)
\* filling a container and inserting single-pass ranges into it
SinglePass(c) ==
    \/ Fill(c)
    \/ \E i \in 0 .. Size(c), R \in Ranges, fails \in FailOne :
          InsertSinglePass(c, i, R, fails)
NextSingle == SinglePass(1)

\* a container assigned to itself
SelfAssign ==
    \/ \E c \in Conts : SelfCopyAssign(c)
    \/ \E c \in Conts : SelfMoveAssign(c)
NextOwn   == Lifecycle \/ Fill(1) \/ SelfAssign
NextPair  == Lifecycle \/ Mutate(1, PairFails, PairFails)
NextAlloc == Lifecycle \/ Fill(1)

\* ------------------------------------------------ the growth policy alone
\* the arguments _calculate_growth can be called with: its callers pass
\* capacity() + 1 or size() + range_size with a range that does not fit,
\* so min_capacity > size(); size() <= max_size() unless reserve went past
\* max_size()
GrowthArgs ==
    {a \in [sz : 0 .. SizeMod - 1, M : 0 .. SizeMod - 1, min : 0 .. SizeMod - 1] :
        a.sz < a.min \/ a.sz <= a.M}

InitGrowth ==
    /\ heap   = [b \in BlockIds |-> NoBlock]
    /\ data   = [c \in Conts |-> NullData]
    /\ alloc  = [c \in Conts |-> 1]
    /\ alive  = [c \in Conts |-> c = 1]
    /\ traits \in TraitChoices
    /\ detail = TRUE
    /\ copyOf = [c \in Conts |-> 0]
    /\ pushed = Untracked
    /\ \E a \in GrowthArgs :
          lastOp = [NoOp EXCEPT !.op = "growth_args", !.i = a.sz, !.n = a.M,
                                !.j = a.min]

\* one evaluation of _calculate_growth(lastOp.j) at size lastOp.i and
\* max_size lastOp.n
CalculateGrowth ==
    /\ lastOp.op = "growth_args"
    /\ LET g == growth(lastOp.i, lastOp.n, lastOp.j)
       IN  lastOp' = [lastOp EXCEPT !.op = "calculate_growth",
                                    !.thrown = g.thrown,
                                    !.err = IF g.thrown THEN "length" ELSE "none",
                                    !.v = g.v]
    /\ UNCHANGED <<heap, data, alloc, alive, traits, detail, copyOf, pushed>>

NextGrowth == CalculateGrowth

Spec     == Init /\ [][Next]_vars
SpecPair == InitPair /\ [][NextPair]_vars
SpecAlloc == InitAlloc /\ [][NextAlloc]_vars
SpecGrow == InitGrow /\ [][NextGrow]_vars
SpecGrowth == InitGrowth /\ [][NextGrowth]_vars
SpecMove == InitMove /\ [][NextAlloc]_vars
SpecSingle == InitSingle /\ [][NextSingle]_vars
SpecOwn  == InitOwn /\ [][NextOwn]_vars

\* ------------------------------------------------------------- properties
\* S with the elements at indices [i, j) removed, and S with R put at index i
Removed(S, i, j)  == SubSeq(S, 1, i) \o SubSeq(S, j + 1, Len(S))
Inserted(S, i, R) == SubSeq(S, 1, i) \o R \o SubSeq(S, i + 1, Len(S))

\* C1: erase(first, last) on a container holding S leaves S without the
\* elements at [first, last), the trailing elements shifted down in order:
\* the size decreases by last - first and the capacity is unchanged.
C1_EraseRemovesRange ==
    lastOp.op = "erase" =>
        /\ Elems(1) = Removed(lastOp.pre, lastOp.i, lastOp.j)
        /\ Size(1) = Len(lastOp.pre) - (lastOp.j - lastOp.i)
        /\ Cap(1) = lastOp.preCap

\* C2: after copy assignment dst = src (allocators equal or not propagating
\* on copy) dst holds exactly the elements of src's [first, last), in order,
\* and src is unchanged.
C2_CopyAssignEqualsSource ==
    [][\A c, o \in Conts :
          (/\ lastOp'.op = "copy_assign" /\ ~lastOp'.thrown
           /\ lastOp'.c = c /\ lastOp'.o = o
           /\ (~traits.pocca \/ ~AllocNeq(alloc[c], alloc[o])))
          => /\ Size(c)' = Size(o)
             /\ Elems(c)' = Elems(o)
             /\ View(o)' = View(o)]_vars

\* C3: a copy-constructed container has the size and the elements of its
\* source, in order, in a block of its own, and the source's size, capacity
\* and elements stay as they are through the construction and through every
\* later mutating call on the copy.
C3_CopyConstructIndependent ==
    [][\A c, o \in Conts :
          /\ (/\ lastOp'.op = "copy_construct" /\ ~lastOp'.thrown
              /\ lastOp'.c = c /\ lastOp'.o = o)
             => /\ Size(c)' = Size(o)
                /\ Elems(c)' = Elems(o)
                /\ (data'[c].first = NullPtr \/ data'[c].first.b # data'[o].first.b)
                /\ View(o)' = View(o)
          /\ (copyOf[c] = o /\ copyOf'[c] = o) => View(o)' = View(o)]_vars

\* a copy of container 2 that has since grown by a successful emplace
C3_Witness ==
    /\ copyOf[1] = 2 /\ lastOp.op = "emplace" /\ ~lastOp.thrown
    /\ Size(2) > 0 /\ Size(1) = Size(2) + 1

\* C4: after every sequence of mutating calls, failed ones included, every
\* slot of [first, last) holds a constructed element, every slot of
\* [last, end) holds none, and no slot was constructed over while it held one.
C4_LiveRangeConstructed ==
    /\ \A k \in 1 .. Len(Elems(1)) : Elems(1)[k] # Raw
    /\ \A k \in 1 .. Len(Spare(1)) : Spare(1)[k] = Raw
    /\ "construct_over_live" \notin lastOp.faults

\* C5: after every sequence of constructors, assignments, moves and mutators,
\* failed ones included, first <= last <= end, and a null first means a null
\* last and a null end.
C5_TriadOrdered ==
    \A c \in Conts :
        /\ data[c].first.b = data[c].last.b /\ data[c].last.b = data[c].end.b
        /\ data[c].first.o <= data[c].last.o /\ data[c].last.o <= data[c].end.o
        /\ data[c].first = NullPtr => (data[c].last = NullPtr /\ data[c].end = NullPtr)

\* a move assignment has handed container lastOp.c a block with spare room
C5_Witness ==
    /\ lastOp.op = "move_assign"
    /\ Size(lastOp.c) > 0 /\ Size(lastOp.c) < Cap(lastOp.c)
    /\ data[lastOp.o] = NullData

\* C6: an emplace on a container with size = capacity that ends in a failure
\* (of the new element's construction or of any copy made while migrating the
\* prefix or the suffix) leaves size, capacity and elements as before the call.
C6_EmplaceReallocStrong ==
    (lastOp.op = "emplace" /\ lastOp.thrown /\ Len(lastOp.pre) = lastOp.preCap) =>
        /\ Size(1) = Len(lastOp.pre)
        /\ Cap(1) = lastOp.preCap
        /\ Elems(1) = lastOp.pre
        /\ ~lastOp.realloc

\* the third construction of a reallocating emplace in the middle failed
C6_Witness ==
    /\ lastOp.op = "emplace" /\ lastOp.thrown /\ lastOp.n = 3
    /\ Len(lastOp.pre) = lastOp.preCap /\ Len(lastOp.pre) >= 2
    /\ lastOp.i = 1

\* C7: a successful emplace at index i on a container holding S yields
\* S[0..i) ++ [v] ++ S[i..size), one element more, and returns the position
\* of index i in the resulting block, with spare capacity or without.
C7_EmplaceInsertsAtIndex ==
    (lastOp.op = "emplace" /\ ~lastOp.thrown) =>
        /\ Elems(1) = Inserted(lastOp.pre, lastOp.i, lastOp.R)
        /\ Size(1) = Len(lastOp.pre) + 1
        /\ lastOp.r = PAdd(data[1].first, lastOp.i)

\* a successful emplace in the middle that reallocated
C7_Witness ==
    /\ lastOp.op = "emplace" /\ ~lastOp.thrown /\ lastOp.realloc
    /\ lastOp.i = 1 /\ Size(1) = 3

\* C8: a successful insert of a multi-pass range R at index i on a container
\* holding S yields S[0..i) ++ R ++ S[i..size), of size |S| + |R|, in the
\* reallocating branch and in both in-place branches.
C8_InsertPutsRangeAtIndex ==
    (lastOp.op = "insert" /\ ~lastOp.thrown) =>
        /\ Elems(1) = Inserted(lastOp.pre, lastOp.i, lastOp.R)
        /\ Size(1) = Len(lastOp.pre) + Len(lastOp.R)

\* a successful in-place insert of a range shorter than the run it shifts
C8_Witness ==
    /\ lastOp.op = "insert" /\ ~lastOp.thrown /\ ~lastOp.realloc
    /\ Len(lastOp.R) >= 1 /\ Len(lastOp.R) < Len(lastOp.pre) - lastOp.i

\* C9: insert(i, R) followed by erase of [i, i + |R|) returns the element
\* sequence to what it was before the insert.
C9_InsertThenEraseRestores ==
    [][(/\ lastOp.op = "insert" /\ ~lastOp.thrown
        /\ lastOp'.op = "erase"
        /\ lastOp'.i = lastOp.i /\ lastOp'.j = lastOp.i + Len(lastOp.R))
       => Elems(1)' = lastOp.pre]_vars

\* container c now has the triad container o had, o has a null triad, and the
\* slots of the block are as they were
Stolen(c, o) ==
    /\ data'[c] = data[o]
    /\ data'[o] = NullData
    /\ Size(c)' = Size(o) /\ Cap(c)' = Cap(o) /\ Elems(c)' = Elems(o)
    /\ data[o].first.b # NULL =>
          heap'[data[o].first.b].slots = heap[data[o].first.b].slots

C11_PropagatingCopyAssignReallocates ==
    [][\A c, o \in Conts :
          (/\ lastOp'.op = "copy_assign" /\ ~lastOp'.thrown
           /\ lastOp'.c = c /\ lastOp'.o = o
           /\ traits.pocca /\ AllocNeq(alloc[c], alloc[o]))
          => /\ alloc'[c] = alloc[o]
             /\ data[c].first.b # NULL => ~heap'[data[c].first.b].live
             /\ data'[c].first.b # NULL =>
                   heap'[data'[c].first.b].alloc = alloc'[c]]_vars

\* C12: while only push_backs are made on a container that started empty,
\* it holds exactly the pushed values in push order, size <= capacity, and
\* the capacity never decreases.
C12_PushBackAppends ==
    [][pushed' # Untracked =>
          /\ Elems(1)' = pushed'
          /\ Size(1)' = Len(pushed')
          /\ Size(1)' <= Cap(1)'
          /\ Cap(1) <= Cap(1)']_vars

\* max_size push_backs of values that differ, the last one successful
C12_Witness ==
    /\ pushed # Untracked /\ Len(pushed) = traits.maxSize
    /\ pushed[1] # pushed[2]
    /\ lastOp.op = "push_back" /\ ~lastOp.thrown /\ lastOp.realloc

\* C13: a reserve(n) with capacity < n that returns makes the capacity
\* exactly n and leaves the size and the element sequence as they were,
\* whether the elements are moved or copied.
C13_ReserveKeepsElements ==
    (lastOp.op = "reserve" /\ ~lastOp.thrown /\ lastOp.preCap < lastOp.i) =>
        /\ Cap(1) = lastOp.i
        /\ Size(1) = Len(lastOp.pre)
        /\ Elems(1) = lastOp.pre

\* C14: shrink_to_fit with size < capacity reallocates to capacity = size
\* with the same elements; with size = capacity (the never-allocated
\* container included) it keeps the block and changes nothing.
C14_ShrinkToFit ==
    (lastOp.op = "shrink_to_fit" /\ ~lastOp.thrown) =>
        /\ Elems(1) = lastOp.pre
        /\ Cap(1) = Size(1)
        /\ Len(lastOp.pre) < lastOp.preCap => lastOp.realloc
        /\ Len(lastOp.pre) = lastOp.preCap => ~lastOp.realloc

\* a successful shrink_to_fit of two elements out of a block of three
C14_Witness ==
    /\ lastOp.op = "shrink_to_fit" /\ ~lastOp.thrown /\ lastOp.realloc
    /\ Len(lastOp.pre) = 2 /\ lastOp.preCap = 3

\* the capacity the last call had to ask for, or 0 when it needed none
Requested ==
    CASE lastOp.op \in {"emplace", "push_back"} ->
            IF Len(lastOp.pre) = lastOp.preCap THEN lastOp.preCap + 1 ELSE 0
      [] lastOp.op = "insert" ->
            IF Len(lastOp.R) > 0 /\ lastOp.preCap - Len(lastOp.pre) < Len(lastOp.R)
            THEN Len(lastOp.pre) + Len(lastOp.R) ELSE 0
      [] lastOp.op = "reserve" ->
            IF lastOp.preCap < lastOp.i THEN lastOp.i ELSE 0
      [] OTHER -> 0

\* C15: an emplace, push_back, insert or reserve that asks for a capacity
\* above max_size fails with the length error and leaves first, size,
\* capacity and elements as they were.
C15_OverflowRejected ==
    Requested > traits.maxSize =>
        /\ lastOp.thrown /\ lastOp.err = "length"
        /\ ~lastOp.realloc
        /\ Elems(1) = lastOp.pre /\ Cap(1) = lastOp.preCap

\* C16: checked front/back throw the out-of-range error exactly when the
\* container is empty, return the first/last element otherwise, and never
\* change the container.
C16_FrontBackChecked ==
    lastOp.op \in {"front", "back"} =>
        /\ lastOp.thrown <=> Len(lastOp.pre) = 0
        /\ lastOp.thrown => lastOp.err = "out_of_range"
        /\ ~lastOp.thrown =>
              lastOp.v = lastOp.pre[IF lastOp.op = "front" THEN 1
                                    ELSE Len(lastOp.pre)]
        /\ Elems(1) = lastOp.pre /\ Cap(1) = lastOp.preCap
        /\ ~lastOp.realloc /\ lastOp.faults = {}

\* back() of a container whose first and last elements differ
C16_Witness ==
    /\ lastOp.op = "back" /\ ~lastOp.thrown
    /\ Len(lastOp.pre) >= 2 /\ lastOp.pre[1] # lastOp.pre[Len(lastOp.pre)]
    /\ lastOp.v = lastOp.pre[Len(lastOp.pre)]

\* C17: reserve(n) with capacity >= n changes nothing: no allocation, no
\* element touched, the triad as it was, and it does not throw.
C17_ReserveNoOp ==
    [][(lastOp'.op = "reserve" /\ lastOp'.i <= Cap(1)) =>
          /\ heap' = heap /\ data' = data /\ alloc' = alloc
          /\ ~lastOp'.thrown]_vars

\* reserve(capacity) on a container that holds elements
C17_Witness ==
    /\ lastOp.op = "reserve" /\ lastOp.i = lastOp.preCap
    /\ lastOp.i > 0 /\ Len(lastOp.pre) > 0 /\ ~lastOp.thrown

\* live blocks of the heap
LiveBlocks == {b \in BlockIds : heap[b].live}

\* the heap holds the container's block and nothing else
OnlyOwnBlock ==
    LiveBlocks = IF data[1].first.b = NULL THEN {} ELSE {data[1].first.b}

\* faults of a clean-up: an element destroyed twice, a block released with
\* constructed elements in it, a block released twice
CleanupFaults == {"destroy_unconstructed", "freed_live_element", "bad_free"}

\* C18: when a reallocating emplace fails after the new element was built
\* (in the prefix or in the suffix migration), everything built in the new
\* block is destroyed exactly once and the block is released once.
C18_EmplaceReallocCleanup ==
    (/\ lastOp.op = "emplace" /\ lastOp.thrown /\ lastOp.err = "element"
     /\ Len(lastOp.pre) = lastOp.preCap /\ lastOp.n >= 2) =>
        /\ lastOp.faults \cap CleanupFaults = {}
        /\ OnlyOwnBlock

\* fallible step at which the shifting emplace constructs the new value
ShiftValueStep ==
    (IF traits.nothrowMove THEN 0 ELSE 1)
    + (IF traits.nothrowMoveAssign THEN 0
       ELSE Len(lastOp.pre) - 1 - lastOp.i)
    + 1

\* the last call was an emplace into spare capacity before the end whose
\* construction of the new value failed
ShiftValueFailed ==
    /\ lastOp.op = "emplace" /\ lastOp.thrown
    /\ Len(lastOp.pre) < lastOp.preCap /\ lastOp.i < Len(lastOp.pre)
    /\ ShiftValueStep \in lastOp.failed

\* the rebuild of the displaced element failed as well
ShiftRebuildFailed ==
    ~traits.nothrowMove /\ (ShiftValueStep + 1) \in lastOp.failed

\* C19: when a shifting emplace fails to construct the new value: if the
\* displaced element is rebuilt, the container is as before; if the rebuild
\* fails too, the size is the insertion index, the elements before it are
\* unchanged, the capacity is unchanged and every slot from the index on
\* was destroyed exactly once.
C19_EmplaceShiftFailure ==
    ShiftValueFailed =>
        /\ Cap(1) = lastOp.preCap /\ ~lastOp.realloc
        /\ ~ShiftRebuildFailed => Elems(1) = lastOp.pre
        /\ ShiftRebuildFailed =>
              /\ Elems(1) = SubSeq(lastOp.pre, 1, lastOp.i)
              /\ "destroy_unconstructed" \notin lastOp.faults
              /\ \A k \in 1 .. (Len(lastOp.pre) + 1 - lastOp.i) :
                    Spare(1)[k] = Raw

\* C20: an insert that has to reallocate and fails leaves first, size,
\* capacity and elements as they were, destroys what it built in the new
\* block exactly once and releases that block.
C20_InsertReallocStrong ==
    (/\ lastOp.op = "insert" /\ lastOp.thrown
     /\ Len(lastOp.R) > 0
     /\ lastOp.preCap - Len(lastOp.pre) < Len(lastOp.R)) =>
        /\ Elems(1) = lastOp.pre /\ Cap(1) = lastOp.preCap
        /\ ~lastOp.realloc
        /\ lastOp.faults \cap CleanupFaults = {}
        /\ OnlyOwnBlock

\* the suffix migration of a reallocating insert in the middle fails
C20_Witness ==
    /\ lastOp.op = "insert" /\ lastOp.thrown /\ lastOp.err = "element"
    /\ Len(lastOp.pre) = 2 /\ lastOp.preCap = 2 /\ lastOp.i = 1
    /\ Len(lastOp.R) = 1 /\ lastOp.n = 3

\* the step is a call that has to move the container to a new block
Reallocating ==
    \/ lastOp'.op \in {"emplace", "push_back"} /\ Size(1) = Cap(1)
    \/ /\ lastOp'.op = "insert" /\ Len(lastOp'.R) > 0
       /\ Cap(1) - Size(1) < Len(lastOp'.R)
    \/ lastOp'.op = "reserve" /\ Cap(1) < lastOp'.i
    \/ lastOp'.op = "shrink_to_fit" /\ Size(1) < Cap(1)
    \/ lastOp'.op = "assign" /\ Cap(1) < Len(lastOp'.R)

\* C21: a reallocating call releases the old block only once the new one
\* is populated: when it fails the triad and the old block are as they
\* were; when it returns the old block is released, the triad is the new
\* block's and every element of it is constructed; in no state between
\* calls does the container refer to a released block.
C21_ReleaseAfterPopulate ==
    [][Reallocating =>
          /\ lastOp'.thrown =>
                /\ data' = data
                /\ data[1].first.b # NULL =>
                      heap'[data[1].first.b] = heap[data[1].first.b]
          /\ ~lastOp'.thrown =>
                /\ data'[1].first.b # data[1].first.b
                /\ data[1].first.b # NULL => ~heap'[data[1].first.b].live
          /\ data'[1].first.b # NULL =>
                /\ heap'[data'[1].first.b].live
                /\ Cap(1)' = Len(heap'[data'[1].first.b].slots)
                /\ \A k \in 1 .. Size(1)' : Elems(1)'[k] # Raw]_vars

\* a reallocating assign whose second construction failed, on a container
\* that held one element
C21_Witness ==
    /\ lastOp.op = "assign" /\ lastOp.thrown /\ lastOp.err = "element"
    /\ Len(lastOp.pre) = 1 /\ lastOp.preCap = 1 /\ Len(lastOp.R) = 2
    /\ lastOp.n = 2

\* C22: the growth policy throws the length error exactly when
\* min_capacity > max_size; otherwise it returns max_size when
\* size + size/2 exceeds max_size and max(min_capacity, size + size/2) when
\* not, so that min_capacity <= result <= max_size.
C22_GrowthPolicy ==
    lastOp.op = "calculate_growth" =>
        LET sz      == lastOp.i
            M       == lastOp.n
            minimum == lastOp.j
            ideal   == sz + (sz \div 2)
        IN  /\ lastOp.thrown <=> minimum > M
            /\ lastOp.thrown => lastOp.err = "length"
            /\ ~lastOp.thrown =>
                  /\ lastOp.v = IF ideal > M THEN M
                                ELSE IF minimum >= ideal THEN minimum ELSE ideal
                  /\ minimum <= lastOp.v /\ lastOp.v <= M

\* a growth clamped to max_size although min_capacity is below it
C22_Witness ==
    /\ lastOp.op = "calculate_growth" /\ ~lastOp.thrown
    /\ lastOp.i + (lastOp.i \div 2) > lastOp.n
    /\ lastOp.j < lastOp.n /\ lastOp.v = lastOp.n

\* C23: a successful assign of a multi-pass range of length L leaves
\* exactly the range; with capacity < L the new capacity is L; with
\* L <= capacity the block and the capacity are kept, and with L <= size
\* the old elements from index L on are destroyed.
C23_RangeAssign ==
    (lastOp.op = "assign" /\ ~lastOp.thrown) =>
        LET L == Len(lastOp.R)
        IN  /\ Elems(1) = lastOp.R
            /\ lastOp.preCap < L => lastOp.realloc /\ Cap(1) = L
            /\ L <= lastOp.preCap => ~lastOp.realloc /\ Cap(1) = lastOp.preCap
            /\ L <= Len(lastOp.pre) =>
                  \A k \in 1 .. (Len(lastOp.pre) - L) : Spare(1)[k] = Raw

\* an assign that overwrites one element and constructs a second one in
\* the spare capacity
C23_Witness ==
    /\ lastOp.op = "assign" /\ ~lastOp.thrown /\ ~lastOp.realloc
    /\ Len(lastOp.pre) = 1 /\ lastOp.preCap = 3 /\ Len(lastOp.R) = 2
    /\ lastOp.R[1] # lastOp.pre[1]

\* C24: after any constructions, copies, moves, assignments (a container
\* assigned to itself included) and destructions, no block is referenced by
\* two containers, no container refers to a released block, and once every
\* container is destroyed no block is left allocated.
C24_ExclusiveOwnership ==
    /\ \A c \in Conts :
          (alive[c] /\ data[c].first.b # NULL) => heap[data[c].first.b].live
    /\ \A c, o \in Conts :
          (c # o /\ alive[c] /\ alive[o] /\ data[c].first.b # NULL)
          => data[c].first.b # data[o].first.b
    /\ (\A c \in Conts : ~alive[c]) => \A b \in BlockIds : ~heap[b].live

\* C25: a move assignment whose allocators do not propagate on move and
\* compare unequal leaves the destination with the source's former elements
\* in order, in a block of the destination's own allocator, the destination
\* keeps its allocator, and the source keeps its triad and its block.
C25_MoveAssignIncompatible ==
    [][\A c, o \in Conts :
          (/\ lastOp'.op = "move_assign" /\ ~lastOp'.thrown
           /\ lastOp'.c = c /\ lastOp'.o = o
           /\ ~traits.pocma /\ AllocNeq(alloc[c], alloc[o]))
          => /\ Elems(c)' = Elems(o)
             /\ Size(c)' = Size(o)
             /\ alloc'[c] = alloc[c] /\ alloc'[o] = alloc[o]
             /\ data'[o] = data[o]
             /\ data[o].first.b # NULL =>
                   /\ heap'[data[o].first.b].live
                   /\ heap'[data[o].first.b].alloc = alloc[o]
             /\ data'[c].first.b # NULL =>
                   /\ heap'[data'[c].first.b].live
                   /\ heap'[data'[c].first.b].alloc = alloc[c]
                   /\ data'[c].first.b # data[o].first.b]_vars

\* two elements were moved one by one between unequal allocators, through
\* input-only move iterators
C25_Witness ==
    /\ lastOp.op = "move_assign" /\ ~lastOp.thrown
    /\ ~traits.pocma /\ ~traits.moveIterForward
    /\ lastOp.c \in Conts /\ lastOp.o \in Conts
    /\ alloc[lastOp.c] # alloc[lastOp.o]
    /\ Elems(lastOp.o) = <<MovedFrom, MovedFrom>>
    /\ Size(lastOp.c) = 2 /\ Elems(lastOp.c)[1] # Elems(lastOp.c)[2]
    /\ data[lastOp.c].first.b # data[lastOp.o].first.b

\* C26: a successful insert of a single-pass range R at index i into S
\* yields S[0..i) ++ R ++ S[i..size), for every i in [0, size], also when
\* the appends reallocate.
C26_SinglePassInsert ==
    (lastOp.op = "insert_single_pass" /\ ~lastOp.thrown) =>
        /\ Elems(1) = Inserted(lastOp.pre, lastOp.i, lastOp.R)
        /\ Size(1) = Len(lastOp.pre) + Len(lastOp.R)
        /\ Size(1) <= Cap(1)

\* two elements inserted in the middle of a full container of two: both
\* appends reallocate
C26_Witness ==
    /\ lastOp.op = "insert_single_pass" /\ ~lastOp.thrown
    /\ Len(lastOp.pre) = 2 /\ lastOp.preCap = 2 /\ lastOp.i = 1
    /\ Len(lastOp.R) = 2 /\ lastOp.R[1] # lastOp.R[2]
    /\ lastOp.pre[1] # lastOp.pre[2]
    /\ Cap(1) = 4

====
